---- MODULE Spec2Model ----
(***************************************************************************)
(* A model of colb (src/src/main.rs): the staged colcon command builder,   *)
(* the configuration load, and the verb workflows of main().               *)
(*                                                                         *)
(* Option<T> is a sequence of length at most one: <<>> is None and <<x>>   *)
(* is Some(x).  Command-line tokens are strings, built as the code builds  *)
(* them (format! becomes string concatenation).                            *)
(***************************************************************************)
EXTENDS Integers, Sequences, FiniteSets, TLC

(* ------------------------------ bounds -------------------------------- *)
\* longest mixin list of a generated build profile
MaxMixins == 2
\* longest extra-argument (cmake_args) list of a generated build profile
MaxCMakeArgs == 1
\* largest exit code a child process returns (0 .. MaxChildCode)
MaxChildCode == 2

(* --------------------------- small helpers ---------------------------- *)
None == <<>>
Some(x) == <<x>>

SeqsUpTo(S, n) == UNION {[1..k -> S] : k \in 0..n}

RECURSIVE Count(_, _)
Count(s, t) ==
    IF s = <<>> THEN 0
    ELSE (IF Head(s) = t THEN 1 ELSE 0) + Count(Tail(s), t)

IsPrefix(p, s) == Len(p) <= Len(s) /\ SubSeq(s, 1, Len(p)) = p

(* ------------------------- configuration model ------------------------ *)
BuildType == {"Debug", "Release", "RelWithDebInfo"}

\* impl Default for EventHandlers
EventHandlers_default ==
    [desktop_notification |-> FALSE, console_cohesion |-> FALSE,
     summary |-> TRUE, console_start_end |-> TRUE]

EventHandlers_silent ==
    [desktop_notification |-> FALSE, console_cohesion |-> FALSE,
     summary |-> FALSE, console_start_end |-> FALSE]

EventHandlers_compile_logs_only ==
    [EventHandlers_silent EXCEPT !.console_cohesion = TRUE]

DEFAULT_MIXINS == <<"compile-commands", "ninja", "mold", "ccache">>

DEFAULT_PARALLEL_JOBS == 8

BuildConfiguration_upstream ==
    [mixins |-> DEFAULT_MIXINS, cmake_args |-> <<>>, build_type |-> "Debug",
     parallel_jobs |-> Some(DEFAULT_PARALLEL_JOBS),
     event_handlers |-> EventHandlers_default, build_tests |-> FALSE]

BuildConfiguration_active ==
    [mixins |-> DEFAULT_MIXINS, cmake_args |-> <<>>, build_type |-> "Debug",
     parallel_jobs |-> Some(DEFAULT_PARALLEL_JOBS),
     event_handlers |-> EventHandlers_compile_logs_only, build_tests |-> TRUE]

Config_default ==
    [upstream |-> BuildConfiguration_upstream,
     package |-> BuildConfiguration_active]

BuildOutput_default == [symlink |-> FALSE, merge |-> FALSE]

(* ----------------------- the staged command builder ------------------- *)
handler_str(name, enabled) == name \o (IF enabled THEN "+" ELSE "-")

cmake_arg(name, value) == "-D" \o name \o "=" \o value

BuildType_apply(t, cmd) == Append(cmd, "-DCMAKE_BUILD_TYPE=" \o t)

EventHandlers_apply(eh, args) ==
    args \o <<"--event-handlers",
              handler_str("summary", eh.summary),
              handler_str("console_start_end", eh.console_start_end),
              handler_str("console_cohesion", eh.console_cohesion),
              handler_str("desktop_notification", eh.desktop_notification)>>

ColconInvocation_new(log) ==
    <<"--log-base", IF log THEN "log" ELSE "/dev/null">>

\* the build stage with the verb put in front of the global options
ColconInvocation_build_VerbFirst(args, base_setup) ==
    <<"build">> \o args \o <<"--build-base", "build", "--install-base", "install">>
         \o (IF base_setup.symlink THEN <<"--symlink-install">> ELSE <<>>)
         \o (IF base_setup.merge THEN <<"--merge-install">> ELSE <<>>)

ColconInvocation_build(args, base_setup) ==
    args \o <<"build", "--build-base", "build", "--install-base", "install">>
         \o (IF base_setup.symlink THEN <<"--symlink-install">> ELSE <<>>)
         \o (IF base_setup.merge THEN <<"--merge-install">> ELSE <<>>)

\* the test stage with the test name given as a bare pattern
ColconInvocation_test_Unanchored(args, tc) ==
    EventHandlers_apply(tc.event_handlers, args \o <<"test", "--event-handlers">>)
        \o <<"--ctest-args", "--output-on-failure">>
        \o (IF tc.test # None THEN <<"-R", tc.test[1]>> ELSE <<>>)
        \o <<"--packages-select", tc.package>>

ColconInvocation_test(args, tc) ==
    EventHandlers_apply(tc.event_handlers, args \o <<"test", "--event-handlers">>)
        \o <<"--ctest-args", "--output-on-failure">>
        \o (IF tc.test # None THEN <<"-R", "^" \o tc.test[1] \o "$">> ELSE <<>>)
        \o <<"--packages-select", tc.package>>

ColconInvocation_test_result(args, rc) ==
    args \o <<"test-result", "--test-result-base", "build/" \o rc.package>>
         \o (IF rc.verbose THEN <<"--verbose">> ELSE <<>>)
         \o (IF rc.all THEN <<"--all">> ELSE <<>>)

ParallelFlags(config) ==
    IF config.parallel_jobs # None
    THEN <<"--executor", "parallel", "--parallel-workers",
           ToString(config.parallel_jobs[1])>>
    ELSE <<>>

\* the mixin flag emitted without the is_empty test
MixinFlags_Always(config) == <<"--mixin">> \o config.mixins

MixinFlags(config) ==
    IF config.mixins # <<>> THEN <<"--mixin">> \o config.mixins ELSE <<>>

TestToggle(config) ==
    <<"--cmake-args",
      cmake_arg("BUILD_TESTING", IF config.build_tests THEN "ON" ELSE "OFF")>>

\* configure with the mixin list put in front of the event handlers
BuildVerb_configure_MixinsFirst(args, config) ==
    BuildType_apply(config.build_type,
        EventHandlers_apply(config.event_handlers,
                            args \o ParallelFlags(config) \o MixinFlags(config))
            \o TestToggle(config)
            \o config.cmake_args)

\* configure with the build mode applied before the extra tool arguments
BuildVerb_configure_ModeFirst(args, config) ==
    BuildType_apply(config.build_type,
        EventHandlers_apply(config.event_handlers, args \o ParallelFlags(config))
            \o MixinFlags(config)
            \o TestToggle(config))
        \o config.cmake_args

BuildVerb_configure(args, config) ==
    BuildType_apply(config.build_type,
        EventHandlers_apply(config.event_handlers, args \o ParallelFlags(config))
            \o MixinFlags(config)
            \o TestToggle(config)
            \o config.cmake_args)

\* enum What, and the discriminator ConfiguredBuild::run appends
DependenciesFor(pkgs) == [kind |-> "DependenciesFor", pkgs |-> pkgs]
ThesePackages(pkgs) == [kind |-> "ThesePackages", pkgs |-> pkgs]

WhatArgs(what) ==
    IF what.kind = "DependenciesFor"
    THEN <<"--packages-up-to">> \o what.pkgs \o <<"--packages-skip">> \o what.pkgs
    ELSE <<"--packages-select">> \o what.pkgs

(* ------------------------------ the state ----------------------------- *)
VARIABLES
    cli,        \* the parsed command line (struct Cli): verb, flags, workspace
    dirs,       \* the directories from the current one (dirs[1]) up to the
                \* filesystem root (dirs[Len(dirs)]), each with its entries
    cfgText,    \* contents of <workspace>/.colb.toml (meaningful if it exists)
    cfgMode,    \* the file operations that succeed on that path
    pkgDirs,    \* which of <ws>/build/<pkg>, <ws>/install/<pkg> exist
    config,     \* main's `config`
    pkgs,       \* the Build verb's `pkgs`
    package,    \* the Test verb's resolved `package`
    pc,         \* position in main
    status,     \* "running", "exited" or "panicked"
    exitCode,   \* Some(code) once the process has exited
    launched,   \* the child processes main asked for, in order, with results
    removed,    \* fs::remove_dir_all calls made, in order
    out,        \* messages printed, in order
    stage,      \* builder pipeline: stage of the builder value
    stack,      \* builder pipeline: its ArgStack
    bconfig,    \* builder pipeline: the profile given to configure, if any
    blog,       \* builder pipeline: the `log` argument of new, if made
    rMarkers,   \* resolver: the `markers` argument of find_upwards
    rCwd,       \* resolver: the loop variable `cwd` of find_upwards
    rResult     \* resolver: Some(result) once find_upwards has returned

vars == <<cli, dirs, cfgText, cfgMode, pkgDirs, config, pkgs, package, pc,
          status, exitCode, launched, removed, out, stage, stack, bconfig, blog,
          rMarkers, rCwd, rResult>>

mainVars == <<cli, dirs, cfgText, cfgMode, pkgDirs, config, pkgs, package, pc,
              status, exitCode, launched, removed, out>>

builderVars == <<stage, stack, bconfig, blog>>

resolverVars == <<rMarkers, rCwd, rResult>>

\* the value std::process::exit gets on every internal failure
FAILURE == -1

COLB_CONFIG_FILENAME == ".colb.toml"

(* --------------------------- input universes -------------------------- *)
MixinNames == {"ninja", "ccache"}

\* extra tool arguments are arguments of cmake: -D definitions
CMakeArgTokens == {"-DFOO=1", "-DBUILD_TESTING=ON", "-DCMAKE_BUILD_TYPE=Release"}

EventHandlerSets ==
    {EventHandlers_default, EventHandlers_silent, EventHandlers_compile_logs_only,
     [desktop_notification |-> TRUE, console_cohesion |-> TRUE,
      summary |-> TRUE, console_start_end |-> TRUE]}

\* the build profiles the builder pipeline is checked on
Profiles ==
    [mixins : SeqsUpTo(MixinNames, MaxMixins),
     cmake_args : SeqsUpTo(CMakeArgTokens, MaxCMakeArgs),
     build_type : BuildType,
     parallel_jobs : {None, Some(DEFAULT_PARALLEL_JOBS)},
     event_handlers : EventHandlerSets,
     build_tests : BOOLEAN]

\* the build profiles persisted configurations are made of in whole runs
ProfileNoMixins ==
    [mixins |-> <<>>, cmake_args |-> <<"-DBUILD_TESTING=ON">>,
     build_type |-> "Release", parallel_jobs |-> None,
     event_handlers |-> EventHandlers_silent, build_tests |-> TRUE]

ProfileTuned ==
    [mixins |-> <<"ccache", "ninja">>,
     cmake_args |-> <<"-DCMAKE_BUILD_TYPE=Release", "-DFOO=1">>,
     build_type |-> "RelWithDebInfo", parallel_jobs |-> Some(DEFAULT_PARALLEL_JOBS),
     event_handlers |-> EventHandlers_default, build_tests |-> FALSE]

StoredProfiles ==
    {BuildConfiguration_upstream, BuildConfiguration_active,
     ProfileNoMixins, ProfileTuned}

StoredConfigs == [upstream : StoredProfiles, package : StoredProfiles]

\* file contents: a TOML document of a Config, or text that is none
TomlText(c) == [kind |-> "toml", doc |-> Some(c)]
GarbageText == [kind |-> "garbage", doc |-> None]
EmptyText == [kind |-> "empty", doc |-> None]

\* toml::to_string_pretty and toml::from_str::<Config> (None: parse error)
toml_to_string_pretty(c) == TomlText(c)
toml_from_str(text) == text.doc

Dir(name, entries) == [name |-> name, entries |-> entries]

\* directory chains, current directory first, filesystem root last
Layouts ==
    { <<Dir("src", {}), Dir("pkgA", {"package.xml"}),
        Dir("ws", {"build", "install", ".colb.toml"}), Dir("", {})>>,
      <<Dir("pkgA", {"package.xml"}), Dir("ws", {"build", "install"}), Dir("", {})>>,
      <<Dir("pkgB", {"package.xml", ".colb.toml"}), Dir("", {})>>,
      <<Dir("tmp", {}), Dir("", {})>>,
      <<Dir("", {"package.xml"})>> }

PackageNames == {"pkgA", "pkgB"}
TestNames == {"t1"}

ChildCodes == 0..MaxChildCode
\* ExitStatus::code(): None when the child was killed by a signal
ExitStatuses == {None} \cup {Some(c) : c \in ChildCodes}
\* Command::status(): Err when the program cannot be started
SpawnResults ==
    {[ok |-> FALSE, status |-> None]} \cup {[ok |-> TRUE, status |-> s] : s \in ExitStatuses}

(* --------------------- workspace and package resolver ----------------- *)
\* a contains_marker that wants every marker present
contains_marker_All(dir, markers) == \A m \in markers : m \in dir.entries

contains_marker(dir, markers) == \E m \in markers : m \in dir.entries

\* the search of find_upwards from dirs[i] upward: the index found, if any
RECURSIVE FindFrom(_, _)
FindFrom(i, markers) ==
    IF i > Len(dirs) THEN None
    ELSE IF contains_marker(dirs[i], markers) THEN Some(i)
    ELSE FindFrom(i + 1, markers)

find_upwards(markers) == FindFrom(1, markers)

\* Path::file_name: the root directory has none
file_name(i) == IF i = Len(dirs) THEN None ELSE Some(dirs[i].name)

RECURSIVE PathOf(_)
PathOf(i) ==
    IF i >= Len(dirs) THEN "" ELSE PathOf(i + 1) \o "/" \o dirs[i].name

\* the canonical path of dirs[i] as text
PathStr(i) == IF i >= Len(dirs) THEN "/" ELSE PathOf(i)

package_or(pkg) ==
    IF pkg # None THEN pkg
    ELSE LET f == find_upwards({"package.xml"}) IN
         IF f = None THEN None ELSE file_name(f[1])

detect_workspace ==
    LET f == find_upwards({"build", COLB_CONFIG_FILENAME}) IN
    IF f = None THEN None ELSE Some(PathStr(f[1]))

\* main's `ws`: --workspace, else the detected workspace, else "."
ws ==
    IF cli.workspace # None THEN cli.workspace[1]
    ELSE IF detect_workspace # None THEN detect_workspace[1]
    ELSE "."

\* the directory `ws` names
WsDir == IF ws = "." THEN 1 ELSE CHOOSE i \in 1..Len(dirs) : PathStr(i) = ws

\* cfg_file_path.exists()
CfgExists == COLB_CONFIG_FILENAME \in dirs[WsDir].entries

(* --------------------------- execution engine ------------------------- *)
Cmd(program, cwd, args) == [program |-> program, cwd |-> cwd, args |-> args]

\* ConfiguredBuild::run and BasicVerb::run: the command they start
ConfiguredBuild_run(args, what) == Cmd("colcon", ws, args \o WhatArgs(what))

BasicVerb_run(args) == Cmd("colcon", ws, args)

ninja_build_target(workspace, pkg, target) ==
    Cmd("ninja", "", <<"-C", workspace \o "/build/" \o pkg, target>>)

run_single_ctest(workspace, pkg, target) ==
    Cmd("ctest", "",
        <<"--test-dir", workspace \o "/build/" \o pkg, "--output-on-failure",
          "-R", "^" \o target \o "$">>)

\* exit_on_error with every failure mapped to the fixed failure code
exit_on_error_FixedCode(st) ==
    IF st = Some(0) THEN [exit |-> FALSE, code |-> 0]
    ELSE [exit |-> TRUE, code |-> FAILURE]

\* what exit_on_error does with a child's status
exit_on_error(st) ==
    IF st = Some(0) THEN [exit |-> FALSE, code |-> 0]
    ELSE IF st # None THEN [exit |-> TRUE, code |-> st[1]]
    ELSE [exit |-> TRUE, code |-> FAILURE]

\* std::process::exit(code)
Exit(code) ==
    /\ pc' = "exited"
    /\ status' = "exited"
    /\ exitCode' = Some(code)

\* a panic (expect on a failed spawn)
Panic ==
    /\ pc' = "exited"
    /\ status' = "panicked"
    /\ exitCode' = None

\* main goes on at `next`; "return" is the end of main
Continue(next) ==
    IF next = "return" THEN Exit(0)
    ELSE pc' = next /\ UNCHANGED <<status, exitCode>>

\* a run that takes a failed spawn as if nothing had been started
RunChecked_IgnoresSpawnFailure(cmd, next) ==
    \E r \in SpawnResults :
        /\ launched' = Append(launched, [cmd |-> cmd, spawned |-> r.ok, status |-> r.status])
        /\ IF r.ok /\ exit_on_error(r.status).exit
           THEN Exit(exit_on_error(r.status).code)
           ELSE Continue(next)

\* cmd.status().expect(..) followed by exit_on_error(status)
RunChecked(cmd, next) ==
    \E r \in SpawnResults :
        /\ launched' = Append(launched, [cmd |-> cmd, spawned |-> r.ok, status |-> r.status])
        /\ IF ~r.ok THEN Panic
           ELSE IF exit_on_error(r.status).exit THEN Exit(exit_on_error(r.status).code)
           ELSE Continue(next)

\* the three Build pipelines of main, all without a persistent log
BuildCommand(profile, what) ==
    ConfiguredBuild_run(
        BuildVerb_configure(
            ColconInvocation_build(ColconInvocation_new(FALSE), BuildOutput_default),
            profile),
        what)

(* ---------------------------- command lines -------------------------- *)
\* struct Cli with enum Verbs flattened: fields of other verbs keep a default
NoCli ==
    [verb |-> "Config", workspace |-> None, force |-> FALSE,
     packages |-> None, skip_dependencies |-> FALSE, skip_tests |-> FALSE,
     build_type |-> None,
     package |-> None, test |-> None, direct |-> FALSE, skip_rebuild |-> FALSE,
     rebuild_dependencies |-> FALSE,
     clean_package |-> ""]

InitClis == {[NoCli EXCEPT !.verb = "Init", !.force = f] : f \in BOOLEAN}

BuildClis ==
    {[NoCli EXCEPT !.verb = "Build", !.packages = p, !.skip_dependencies = sd,
                   !.skip_tests = st, !.build_type = bt] :
        p \in {None, Some(<<"pkgA">>), Some(<<"pkgA", "pkgB">>)},
        sd \in BOOLEAN, st \in BOOLEAN,
        bt \in {None} \cup {Some(t) : t \in BuildType}}

TestClis ==
    {[NoCli EXCEPT !.verb = "Test", !.package = p, !.test = t, !.direct = d,
                   !.skip_rebuild = sr, !.rebuild_dependencies = rd] :
        p \in {None} \cup {Some(n) : n \in PackageNames},
        t \in {None} \cup {Some(n) : n \in TestNames},
        d \in BOOLEAN, sr \in BOOLEAN, rd \in BOOLEAN}

CleanClis == {[NoCli EXCEPT !.verb = "Clean", !.clean_package = p] : p \in {"", "pkgA"}}

ConfigClis == {NoCli}

Clis == InitClis \cup BuildClis \cup TestClis \cup CleanClis \cup ConfigClis

AllOps == {"read", "create", "write"}
\* unreadable; read-only; creatable but the write fails
FileModes == {AllOps, {"create", "write"}, {"read"}, {"read", "create"}}

(* ------------------------------- Init --------------------------------- *)
Init ==
    /\ dirs \in Layouts
    /\ \E c \in Clis, w \in {None} \cup {Some(PathStr(i)) : i \in 1..Len(dirs)} :
           cli = [c EXCEPT !.workspace = w]
    /\ cfgMode \in FileModes
    /\ IF CfgExists
       THEN cfgText \in {GarbageText} \cup {TomlText(c) : c \in StoredConfigs}
       ELSE cfgText = EmptyText
    /\ IF cli.verb = "Clean"
       THEN pkgDirs \in SUBSET ({"build", "install"} \cap dirs[WsDir].entries)
       ELSE pkgDirs = {}
    /\ config = Config_default
    /\ pkgs = <<>>
    /\ package = None
    /\ pc = "main"
    /\ status = "running"
    /\ exitCode = None
    /\ launched = <<>>
    /\ removed = <<>>
    /\ out = <<>>
    /\ stage = "none"
    /\ stack = <<>>
    /\ bconfig = None
    /\ blog = None
    /\ rMarkers = {}
    /\ rCwd = None
    /\ rResult = None

(* ------------------------- main: configuration ------------------------ *)
\* main up to the verb dispatch: the Config verb leaves before the file is
\* read; every other verb reads and parses the file when it exists
LoadConfig ==
    /\ pc = "main"
    /\ cli.verb # "Config"
    /\ IF CfgExists
       THEN IF "read" \notin cfgMode
            THEN /\ out' = Append(out, "Could not open config file")
                 /\ Exit(FAILURE)
                 /\ UNCHANGED config
            ELSE IF toml_from_str(cfgText) = None
            THEN /\ out' = Append(out, "Could not parse config file")
                 /\ Exit(FAILURE)
                 /\ UNCHANGED config
            ELSE /\ config' = toml_from_str(cfgText)[1]
                 /\ pc' = cli.verb
                 /\ UNCHANGED <<out, status, exitCode>>
       ELSE /\ config' = Config_default
            /\ pc' = cli.verb
            /\ UNCHANGED <<out, status, exitCode>>
    /\ UNCHANGED <<cli, dirs, cfgText, cfgMode, pkgDirs, pkgs, package,
                   launched, removed, builderVars, resolverVars>>

(* ---------------------------- main: Init verb ------------------------- *)
\* the Init verb without the refusal to overwrite
InitVerb_NoForceCheck ==
    /\ pc = "Init"
    /\ IF "create" \notin cfgMode
       THEN /\ out' = Append(out, "Could not create")
            /\ Exit(FAILURE)
            /\ UNCHANGED <<dirs, cfgText>>
       ELSE /\ dirs' = [dirs EXCEPT ![WsDir].entries = @ \cup {COLB_CONFIG_FILENAME}]
            /\ IF "write" \in cfgMode
               THEN /\ cfgText' = toml_to_string_pretty(Config_default)
                    /\ out' = Append(out, "Initialized default configuration")
                    /\ Exit(0)
               ELSE /\ cfgText' = EmptyText
                    /\ out' = Append(out, "Could not create")
                    /\ Exit(FAILURE)
    /\ UNCHANGED <<cli, cfgMode, pkgDirs, config, pkgs, package, launched,
                   removed, builderVars, resolverVars>>

InitVerb ==
    /\ pc = "Init"
    /\ IF CfgExists /\ ~cli.force
       THEN /\ out' = Append(out, "Will not overwrite without --force")
            /\ Exit(FAILURE)
            /\ UNCHANGED <<dirs, cfgText>>
       ELSE IF "create" \notin cfgMode
       THEN /\ out' = Append(out, "Could not create")
            /\ Exit(FAILURE)
            /\ UNCHANGED <<dirs, cfgText>>
       ELSE /\ dirs' = [dirs EXCEPT ![WsDir].entries = @ \cup {COLB_CONFIG_FILENAME}]
            /\ IF "write" \in cfgMode
               THEN /\ cfgText' = toml_to_string_pretty(Config_default)
                    /\ out' = Append(out, "Initialized default configuration")
                    /\ Exit(0)
               ELSE /\ cfgText' = EmptyText
                    /\ out' = Append(out, "Could not create")
                    /\ Exit(FAILURE)
    /\ UNCHANGED <<cli, cfgMode, pkgDirs, config, pkgs, package, launched,
                   removed, builderVars, resolverVars>>

(* --------------------------- main: Build verb ------------------------- *)
\* the packages named on the command line, each through package_or
RECURSIVE ResolveAll(_)
ResolveAll(ps) ==
    IF ps = <<>> THEN <<>>
    ELSE <<package_or(Some(Head(ps)))>> \o ResolveAll(Tail(ps))

\* skip_tests applied to the package profile only
BuildSkipTests_PackageOnly(c) == [c EXCEPT !.package.build_tests = FALSE]

BuildSkipTests(c) ==
    [c EXCEPT !.upstream.build_tests = FALSE, !.package.build_tests = FALSE]

BuildPkgs ==
    IF cli.packages # None
    THEN [i \in 1..Len(cli.packages[1]) |-> ResolveAll(cli.packages[1])[i][1]]
    ELSE <<>>

BuildSetup ==
    /\ pc = "Build"
    /\ config' = IF cli.skip_tests THEN BuildSkipTests(config) ELSE config
    /\ IF cli.packages # None /\ \E r \in 1..Len(cli.packages[1]) :
                                    ResolveAll(cli.packages[1])[r] = None
       THEN /\ out' = Append(out, "Could not detect package")
            /\ Exit(FAILURE)
            /\ UNCHANGED pkgs
       ELSE /\ pkgs' = BuildPkgs
            /\ pc' = "build_deps"
            /\ UNCHANGED <<out, status, exitCode>>
    /\ UNCHANGED <<cli, dirs, cfgText, cfgMode, pkgDirs, package, launched,
                   removed, builderVars, resolverVars>>

\* the dependency build with the skip_dependencies test left out
BuildDependencies_IgnoresSkip ==
    /\ pc = "build_deps"
    /\ RunChecked(BuildCommand(config.upstream, DependenciesFor(pkgs)), "build_pkg")
    /\ UNCHANGED <<cli, dirs, cfgText, cfgMode, pkgDirs, config, pkgs, package,
                   removed, out, builderVars, resolverVars>>

BuildDependencies ==
    /\ pc = "build_deps"
    /\ IF ~cli.skip_dependencies
       THEN RunChecked(BuildCommand(config.upstream, DependenciesFor(pkgs)), "build_pkg")
       ELSE /\ pc' = "build_pkg"
            /\ UNCHANGED <<status, exitCode, launched>>
    /\ UNCHANGED <<cli, dirs, cfgText, cfgMode, pkgDirs, config, pkgs, package,
                   removed, out, builderVars, resolverVars>>

\* the build_type override applied to both profiles
BuildTypeOverride_Both(c) ==
    IF cli.build_type # None
    THEN [c EXCEPT !.package.build_type = cli.build_type[1],
                   !.upstream.build_type = cli.build_type[1]]
    ELSE c

BuildTypeOverride(c) ==
    IF cli.build_type # None
    THEN [c EXCEPT !.package.build_type = cli.build_type[1]]
    ELSE c

BuildPackage ==
    /\ pc = "build_pkg"
    /\ config' = BuildTypeOverride(config)
    /\ RunChecked(BuildCommand(config'.package, ThesePackages(pkgs)), "return")
    /\ UNCHANGED <<cli, dirs, cfgText, cfgMode, pkgDirs, pkgs, package,
                   removed, out, builderVars, resolverVars>>

(* --------------------------- main: Test verb -------------------------- *)
TestResolve ==
    /\ pc = "Test"
    /\ IF package_or(cli.package) = None
       THEN /\ out' = Append(out, "Could not detect package")
            /\ Exit(FAILURE)
            /\ UNCHANGED package
       ELSE /\ package' = package_or(cli.package)
            /\ pc' = "test_deps"
            /\ UNCHANGED <<out, status, exitCode>>
    /\ UNCHANGED <<cli, dirs, cfgText, cfgMode, pkgDirs, config, pkgs, launched,
                   removed, builderVars, resolverVars>>

\* phase 1 that looks at rebuild-dependencies only
TestRebuildDependencies_IgnoresSkipRebuild ==
    /\ pc = "test_deps"
    /\ IF cli.rebuild_dependencies
       THEN RunChecked(BuildCommand(config.upstream, DependenciesFor(<<package[1]>>)),
                       "test_deps_pkg")
       ELSE /\ pc' = "test_build"
            /\ UNCHANGED <<status, exitCode, launched>>
    /\ UNCHANGED <<cli, dirs, cfgText, cfgMode, pkgDirs, config, pkgs, package,
                   removed, out, builderVars, resolverVars>>

\* phase 1, first half: the dependencies of the package
TestRebuildDependencies ==
    /\ pc = "test_deps"
    /\ IF cli.rebuild_dependencies /\ ~cli.skip_rebuild
       THEN RunChecked(BuildCommand(config.upstream, DependenciesFor(<<package[1]>>)),
                       "test_deps_pkg")
       ELSE /\ pc' = "test_build"
            /\ UNCHANGED <<status, exitCode, launched>>
    /\ UNCHANGED <<cli, dirs, cfgText, cfgMode, pkgDirs, config, pkgs, package,
                   removed, out, builderVars, resolverVars>>

\* phase 1, second half, left out on the direct path
TestRebuildPackage_SkipsWhenDirect ==
    /\ pc = "test_deps_pkg"
    /\ IF cli.test # None /\ ~cli.direct
       THEN RunChecked(BuildCommand(config.package, ThesePackages(<<package[1]>>)),
                       "test_build")
       ELSE /\ pc' = "test_build"
            /\ UNCHANGED <<status, exitCode, launched>>
    /\ UNCHANGED <<cli, dirs, cfgText, cfgMode, pkgDirs, config, pkgs, package,
                   removed, out, builderVars, resolverVars>>

\* phase 1, second half: the package itself when a single test is named
TestRebuildPackage ==
    /\ pc = "test_deps_pkg"
    /\ IF cli.test # None
       THEN RunChecked(BuildCommand(config.package, ThesePackages(<<package[1]>>)),
                       "test_build")
       ELSE /\ pc' = "test_build"
            /\ UNCHANGED <<status, exitCode, launched>>
    /\ UNCHANGED <<cli, dirs, cfgText, cfgMode, pkgDirs, config, pkgs, package,
                   removed, out, builderVars, resolverVars>>

\* phase 2 that always builds the whole package
TestBuild_AlwaysColcon ==
    /\ pc = "test_build"
    /\ IF ~cli.skip_rebuild
       THEN RunChecked(BuildCommand(config.package, ThesePackages(<<package[1]>>)),
                       "test_run")
       ELSE /\ pc' = "test_run"
            /\ UNCHANGED <<status, exitCode, launched>>
    /\ UNCHANGED <<cli, dirs, cfgText, cfgMode, pkgDirs, config, pkgs, package,
                   removed, out, builderVars, resolverVars>>

\* phase 2: the named test's target through ninja, or the whole package
TestBuild ==
    /\ pc = "test_build"
    /\ IF ~cli.skip_rebuild
       THEN IF cli.test # None
            THEN RunChecked(ninja_build_target(ws, package[1], cli.test[1]), "test_run")
            ELSE RunChecked(BuildCommand(config.package, ThesePackages(<<package[1]>>)),
                            "test_run")
       ELSE /\ pc' = "test_run"
            /\ UNCHANGED <<status, exitCode, launched>>
    /\ UNCHANGED <<cli, dirs, cfgText, cfgMode, pkgDirs, config, pkgs, package,
                   removed, out, builderVars, resolverVars>>

TestCommand ==
    BasicVerb_run(
        ColconInvocation_test(ColconInvocation_new(TRUE),
            [package |-> package[1], test |-> cli.test,
             event_handlers |-> EventHandlers_silent]))

\* phase 3 without the `return` after the direct run
TestRun_NoReturn ==
    /\ pc = "test_run"
    /\ IF cli.test # None /\ cli.direct
       THEN RunChecked(run_single_ctest(ws, package[1], cli.test[1]), "test_result")
       ELSE RunChecked(TestCommand, "test_result")
    /\ UNCHANGED <<cli, dirs, cfgText, cfgMode, pkgDirs, config, pkgs, package,
                   removed, out, builderVars, resolverVars>>

\* phase 3: ctest directly (then main returns), or colcon test
TestRun ==
    /\ pc = "test_run"
    /\ IF cli.test # None /\ cli.direct
       THEN RunChecked(run_single_ctest(ws, package[1], cli.test[1]), "return")
       ELSE RunChecked(TestCommand, "test_result")
    /\ UNCHANGED <<cli, dirs, cfgText, cfgMode, pkgDirs, config, pkgs, package,
                   removed, out, builderVars, resolverVars>>

TestResultCommand ==
    BasicVerb_run(
        ColconInvocation_test_result(ColconInvocation_new(FALSE),
            [package |-> package[1], verbose |-> TRUE, all |-> TRUE]))

\* phase 4: colcon test-result
TestResult ==
    /\ pc = "test_result"
    /\ RunChecked(TestResultCommand, "return")
    /\ UNCHANGED <<cli, dirs, cfgText, cfgMode, pkgDirs, config, pkgs, package,
                   removed, out, builderVars, resolverVars>>

(* --------------------------- main: Clean verb ------------------------- *)
\* whether <ws>/<base>/<pkg> exists; with an empty name it is <ws>/<base>
FolderExists(base, pkg) ==
    IF pkg = "" THEN base \in dirs[WsDir].entries ELSE base \in pkgDirs

\* a removal step without the exists() test
CleanStep_NoExistsCheck(base, pkg, ok, st) ==
    [removed |-> Append(st.removed, [path |-> base \o "/" \o pkg, ok |-> ok]),
     gone |-> IF ok THEN st.gone \cup {base} ELSE st.gone,
     out |-> IF ok THEN st.out ELSE Append(st.out, "Error"),
     did_stuff |-> TRUE]

\* one `if folder.exists() { remove_dir_all }` of clean_package
CleanStep(base, pkg, ok, st) ==
    IF FolderExists(base, pkg)
    THEN [removed |-> Append(st.removed, [path |-> base \o "/" \o pkg, ok |-> ok]),
          gone |-> IF ok THEN st.gone \cup {base} ELSE st.gone,
          out |-> IF ok THEN st.out ELSE Append(st.out, "Error"),
          did_stuff |-> TRUE]
    ELSE st

\* a clean_package that gives up after a failed removal
clean_package_AbortOnError(pkg, okBuild, okInstall) ==
    LET b == CleanStep("build", pkg, okBuild,
                 [removed |-> removed, gone |-> {}, out |-> <<>>,
                  did_stuff |-> FALSE])
    IN IF FolderExists("build", pkg) /\ ~okBuild
       THEN b
       ELSE CleanStep("install", pkg, okInstall, b)

clean_package(pkg, okBuild, okInstall) ==
    CleanStep("install", pkg, okInstall,
        CleanStep("build", pkg, okBuild,
            [removed |-> removed, gone |-> {}, out |-> <<>>, did_stuff |-> FALSE]))

CleanVerb ==
    /\ pc = "Clean"
    /\ \E okBuild \in BOOLEAN, okInstall \in BOOLEAN :
         LET pkg == cli.clean_package
             r == clean_package(pkg, okBuild, okInstall)
         IN /\ removed' = r.removed
            /\ out' = out
                      \o (IF pkg = ""
                          THEN <<"Package argument must not be empty">> ELSE <<>>)
                      \o r.out
                      \o (IF r.did_stuff THEN <<>> ELSE <<"Nothing to clean up">>)
            /\ IF pkg = ""
               THEN /\ dirs' = [dirs EXCEPT ![WsDir].entries = @ \ r.gone]
                    /\ pkgDirs' = {}
               ELSE /\ pkgDirs' = pkgDirs \ r.gone
                    /\ UNCHANGED dirs
    /\ Exit(0)
    /\ UNCHANGED <<cli, cfgText, cfgMode, config, pkgs, package, launched,
                   builderVars, resolverVars>>

(* --------------------------- main: Config verb ------------------------ *)
\* a Config verb placed after the load of the configuration file
ConfigVerb_ParsesFirst ==
    /\ pc = "main"
    /\ cli.verb = "Config"
    /\ IF CfgExists /\ ("read" \notin cfgMode \/ toml_from_str(cfgText) = None)
       THEN /\ out' = Append(out, "Could not parse config file")
            /\ Exit(FAILURE)
            /\ UNCHANGED launched
       ELSE \/ /\ out' = Append(out, "Couldn't read $EDITOR")
               /\ Exit(FAILURE)
               /\ UNCHANGED launched
            \/ \E r \in SpawnResults :
                 /\ launched' = Append(launched,
                        [cmd |-> Cmd("$EDITOR", "", <<ws \o "/" \o COLB_CONFIG_FILENAME>>),
                         spawned |-> r.ok, status |-> r.status])
                 /\ IF ~r.ok
                    THEN out' = Append(out, "Couldn't run $EDITOR") /\ Exit(FAILURE)
                    ELSE /\ Exit(IF r.status # None THEN r.status[1] ELSE FAILURE)
                         /\ UNCHANGED out
    /\ UNCHANGED <<cli, dirs, cfgText, cfgMode, pkgDirs, config, pkgs, package,
                   removed, builderVars, resolverVars>>

\* colb_config: $EDITOR unset, the editor not startable, or its exit status
ConfigVerb ==
    /\ pc = "main"
    /\ cli.verb = "Config"
    /\ \/ /\ out' = Append(out, "Couldn't read $EDITOR")
          /\ Exit(FAILURE)
          /\ UNCHANGED launched
       \/ \E r \in SpawnResults :
            /\ launched' = Append(launched,
                   [cmd |-> Cmd("$EDITOR", "", <<ws \o "/" \o COLB_CONFIG_FILENAME>>),
                    spawned |-> r.ok, status |-> r.status])
            /\ IF ~r.ok
               THEN out' = Append(out, "Couldn't run $EDITOR") /\ Exit(FAILURE)
               ELSE /\ Exit(IF r.status # None THEN r.status[1] ELSE FAILURE)
                    /\ UNCHANGED out
    /\ UNCHANGED <<cli, dirs, cfgText, cfgMode, pkgDirs, config, pkgs, package,
                   removed, builderVars, resolverVars>>

(* ------------------------------ whole runs ---------------------------- *)
Next ==
    \/ LoadConfig
    \/ InitVerb
    \/ BuildSetup
    \/ BuildDependencies
    \/ BuildPackage
    \/ TestResolve
    \/ TestRebuildDependencies
    \/ TestRebuildPackage
    \/ TestBuild
    \/ TestRun
    \/ TestResult
    \/ CleanVerb
    \/ ConfigVerb

Spec == Init /\ [][Next]_vars

(* ------------------------- the builder pipeline ----------------------- *)
\* One builder value taken through its stages, for every input of each stage:
\* ColconInvocation::new, then build / test / test_result, then (Build only)
\* configure, then run.
BuilderInit ==
    /\ dirs = <<Dir("pkgA", {"package.xml"}), Dir("ws", {"build", "install"}), Dir("", {})>>
    /\ cli = NoCli
    /\ cfgMode = AllOps
    /\ cfgText = EmptyText
    /\ pkgDirs = {}
    /\ config = Config_default
    /\ pkgs = <<>>
    /\ package = None
    /\ pc = "pipeline"
    /\ status = "running"
    /\ exitCode = None
    /\ launched = <<>>
    /\ removed = <<>>
    /\ out = <<>>
    /\ stage = "none"
    /\ stack = <<>>
    /\ bconfig = None
    /\ blog = None
    /\ rMarkers = {}
    /\ rCwd = None
    /\ rResult = None

TestConfigurations ==
    [package : PackageNames, test : {None} \cup {Some(t) : t \in TestNames},
     event_handlers : EventHandlerSets]

TestResultConfigs == [package : PackageNames, verbose : BOOLEAN, all : BOOLEAN]

BuildOutputs == [symlink : BOOLEAN, merge : BOOLEAN]

Whats ==
    {DependenciesFor(p) : p \in {<<"pkgA">>, <<"pkgA", "pkgB">>}}
        \cup {ThesePackages(p) : p \in {<<"pkgA">>, <<"pkgA", "pkgB">>}}

PipeNew ==
    /\ pc = "pipeline" /\ stage = "none"
    /\ \E log \in BOOLEAN :
         /\ stack' = ColconInvocation_new(log)
         /\ blog' = Some(log)
    /\ stage' = "ColconInvocation"
    /\ UNCHANGED <<mainVars, resolverVars, bconfig>>

PipeBuild ==
    /\ stage = "ColconInvocation"
    /\ \E base_setup \in BuildOutputs : stack' = ColconInvocation_build(stack, base_setup)
    /\ stage' = "BuildVerb"
    /\ UNCHANGED <<mainVars, resolverVars, bconfig, blog>>

PipeTest ==
    /\ stage = "ColconInvocation"
    /\ \E tc \in TestConfigurations : stack' = ColconInvocation_test(stack, tc)
    /\ stage' = "BasicVerb"
    /\ UNCHANGED <<mainVars, resolverVars, bconfig, blog>>

PipeTestResult ==
    /\ stage = "ColconInvocation"
    /\ \E rc \in TestResultConfigs : stack' = ColconInvocation_test_result(stack, rc)
    /\ stage' = "BasicVerb"
    /\ UNCHANGED <<mainVars, resolverVars, bconfig, blog>>

PipeConfigure ==
    /\ stage = "BuildVerb"
    /\ \E c \in Profiles :
         /\ stack' = BuildVerb_configure(stack, c)
         /\ bconfig' = Some(c)
    /\ stage' = "ConfiguredBuild"
    /\ UNCHANGED <<mainVars, resolverVars, blog>>

\* the finalized command line: what run hands to the child process
PipeRunBuild ==
    /\ stage = "ConfiguredBuild"
    /\ \E what \in Whats : stack' = ConfiguredBuild_run(stack, what).args
    /\ stage' = "run"
    /\ UNCHANGED <<mainVars, resolverVars, bconfig, blog>>

PipeRunBasic ==
    /\ stage = "BasicVerb"
    /\ stack' = BasicVerb_run(stack).args
    /\ stage' = "run"
    /\ UNCHANGED <<mainVars, resolverVars, bconfig, blog>>

BuilderNext ==
    \/ PipeNew
    \/ PipeBuild
    \/ PipeTest
    \/ PipeTestResult
    \/ PipeConfigure
    \/ PipeRunBuild
    \/ PipeRunBasic

BuilderSpec == BuilderInit /\ [][BuilderNext]_vars

(* ===================== properties of whole runs ======================= *)
(* ====================== the upward resolver =========================== *)
\* find_upwards taken one loop iteration at a time, over generated directory
\* chains, followed by the file_name step of package_or.
MaxDepth == 4

\* what a generated directory may hold
DirContents ==
    { {}, {"package.xml"}, {"build", "install"}, {".colb.toml", "package.xml"} }

DirName(i) == "d" \o ToString(i)

\* chains of up to MaxDepth named directories below the root
Chains ==
    UNION { { [i \in 1..(n + 1) |->
                 Dir(IF i = n + 1 THEN "" ELSE DirName(i), e[i])] :
              e \in [1..(n + 1) -> DirContents] } : n \in 0..MaxDepth }

MarkerSets == { {"package.xml"}, {"build", COLB_CONFIG_FILENAME} }

\* Path::parent: the directory above dirs[i], none above the root
parent(i) == IF i >= Len(dirs) THEN None ELSE Some(i + 1)

ResolverInit ==
    /\ dirs \in Chains
    /\ cli = NoCli
    /\ cfgMode = AllOps
    /\ cfgText = EmptyText
    /\ pkgDirs = {}
    /\ config = Config_default
    /\ pkgs = <<>>
    /\ package = None
    /\ pc = "find_upwards"
    /\ status = "running"
    /\ exitCode = None
    /\ launched = <<>>
    /\ removed = <<>>
    /\ out = <<>>
    /\ stage = "none"
    /\ stack = <<>>
    /\ bconfig = None
    /\ blog = None
    /\ rMarkers \in MarkerSets
    /\ rCwd = Some(1)
    /\ rResult = None

\* one iteration of `while let Some(p) = cwd`
FindUpwardsStep ==
    /\ pc = "find_upwards"
    /\ rCwd # None
    /\ LET p == rCwd[1] IN
       IF contains_marker(dirs[p], rMarkers)
       THEN /\ rResult' = Some(Some(p))
            /\ pc' = "returned"
            /\ UNCHANGED rCwd
       ELSE /\ rCwd' = parent(p)
            /\ UNCHANGED <<rResult, pc>>
    /\ UNCHANGED <<cli, dirs, cfgText, cfgMode, pkgDirs, config, pkgs, package,
                   status, exitCode, launched, removed, out, rMarkers, builderVars>>

\* the loop ends with cwd = None: the function returns None
FindUpwardsNone ==
    /\ pc = "find_upwards"
    /\ rCwd = None
    /\ rResult' = Some(None)
    /\ pc' = "returned"
    /\ UNCHANGED <<cli, dirs, cfgText, cfgMode, pkgDirs, config, pkgs, package,
                   status, exitCode, launched, removed, out, rMarkers, rCwd,
                   builderVars>>

\* package_or(None): the file name of what find_upwards(["package.xml"]) gave
PackageOrName ==
    /\ pc = "returned"
    /\ rMarkers = {"package.xml"}
    /\ package' = (IF rResult[1] = None THEN None ELSE file_name(rResult[1][1]))
    /\ pc' = "package_or"
    /\ UNCHANGED <<cli, dirs, cfgText, cfgMode, pkgDirs, config, pkgs,
                   status, exitCode, launched, removed, out, resolverVars,
                   builderVars>>

ResolverNext ==
    \/ FindUpwardsStep
    \/ FindUpwardsNone
    \/ PackageOrName

ResolverSpec == ResolverInit /\ [][ResolverNext]_vars

Last(s) == s[Len(s)]

\* the smallest index of token t in s, 0 when s does not hold it
FirstIndex(s, t) ==
    IF \E i \in 1..Len(s) : s[i] = t
    THEN CHOOSE i \in 1..Len(s) : s[i] = t /\ \A j \in 1..(i - 1) : s[j] # t
    ELSE 0

Terminated == status # "running"

\* the run got past the configuration load into its verb's workflow
EnteredWorkflow ==
    /\ pc # "main"
    /\ \A i \in 1..Len(out) :
         out[i] \notin {"Could not open config file", "Could not parse config file"}

\* the configuration the run starts from: the persisted one, else the default
StoredConfig == IF CfgExists THEN cfgText.doc[1] ELSE Config_default

\* the kind of a launched command, read off its command line
IsColconBuild(l) == l.cmd.program = "colcon" /\ FirstIndex(l.cmd.args, "build") = 3
IsDependencyBuild(l) == IsColconBuild(l) /\ FirstIndex(l.cmd.args, "--packages-up-to") > 0
IsPackageBuild(l) == IsColconBuild(l) /\ FirstIndex(l.cmd.args, "--packages-select") > 0
IsNinja(l) == l.cmd.program = "ninja"
IsCtest(l) == l.cmd.program = "ctest"
IsColconTest(l) == l.cmd.program = "colcon" /\ FirstIndex(l.cmd.args, "test") = 3
IsTestResult(l) == l.cmd.program = "colcon" /\ FirstIndex(l.cmd.args, "test-result") = 3

\* the child ran and returned a non-zero exit code
ExitedNonZero(l) == l.spawned /\ l.status # None /\ l.status[1] # 0

(* C1: in the Build and Test verbs every child that exits with a non-zero
   code is the last process launched and the wrapper has exited with exactly
   that code; every process that is followed by another one, or after which
   the wrapper is still running, exited with code 0. *)
C1_ExitCodePropagated ==
    cli.verb \in {"Build", "Test"} =>
        \A i \in 1..Len(launched) :
            /\ ExitedNonZero(launched[i]) =>
                   /\ i = Len(launched)
                   /\ status = "exited"
                   /\ exitCode = launched[i].status
            /\ (i < Len(launched) \/ status = "running") =>
                   /\ launched[i].spawned
                   /\ launched[i].status = Some(0)

\* a dependency build that exits 2 ends a build run, with two phases still
\* to come, with exit code 2
C1_Witness ==
    /\ cli.verb = "Build" /\ ~cli.skip_dependencies
    /\ Len(launched) = 1
    /\ IsDependencyBuild(launched[1])
    /\ launched[1].status = Some(2)
    /\ status = "exited" /\ exitCode = Some(2)

(* C2: Test verb with a test name, direct and skip-rebuild (any value of
   rebuild-dependencies): nothing but ctest on the named test in the package
   build folder is ever launched, at most once; and a run that entered the
   Test workflow with its package resolved has, when it ends, launched it
   exactly once.  (A run that ends earlier, on an unreadable or malformed
   configuration file or an unresolvable package, launches nothing; a launch
   is counted when main issues it, whether or not the program starts.) *)
C2_DirectSkipRebuildOnlyCtest ==
    (cli.verb = "Test" /\ cli.test # None /\ cli.direct /\ cli.skip_rebuild) =>
        /\ Len(launched) <= 1
        /\ \A i \in 1..Len(launched) :
             /\ IsCtest(launched[i])
             /\ launched[i].cmd.args =
                    <<"--test-dir", ws \o "/build/" \o package[1],
                      "--output-on-failure", "-R", "^" \o cli.test[1] \o "$">>
        /\ (Terminated /\ package # None) => Len(launched) = 1

C2_Witness ==
    /\ cli.verb = "Test" /\ cli.test = Some("t1") /\ cli.direct /\ cli.skip_rebuild
    /\ cli.rebuild_dependencies
    /\ cli.package = None /\ package = Some("pkgA")
    /\ Terminated /\ exitCode = Some(0)
    /\ Len(launched) = 1 /\ IsCtest(launched[1])

(* C3: Build verb without explicit packages: every build command line of the
   run names exactly the package resolved from the current directory. *)
C3_DefaultPackageIsResolved ==
    (cli.verb = "Build" /\ cli.packages = None /\ package_or(None) # None) =>
        \A i \in 1..Len(launched) :
            \E what \in {DependenciesFor(<<package_or(None)[1]>>),
                         ThesePackages(<<package_or(None)[1]>>)} :
                /\ Len(launched[i].cmd.args) > Len(WhatArgs(what))
                /\ SubSeq(launched[i].cmd.args,
                          Len(launched[i].cmd.args) - Len(WhatArgs(what)) + 1,
                          Len(launched[i].cmd.args)) = WhatArgs(what)

\* the profiles a Build run uses, from the persisted configuration and the
\* command line: skip-tests turns build_tests off in both, build-type
\* replaces the mode of the package profile
EffectiveUpstream ==
    [StoredConfig.upstream EXCEPT
        !.build_tests = IF cli.skip_tests THEN FALSE ELSE @]

EffectivePackage ==
    [StoredConfig.package EXCEPT
        !.build_tests = IF cli.skip_tests THEN FALSE ELSE @,
        !.build_type = IF cli.build_type # None THEN cli.build_type[1] ELSE @]

\* the Build run is past its dependency phase
PastDependencyPhase == pc = "build_pkg" \/ launched # <<>>

(* C4: a Build run that entered its workflow launches the dependency build
   (upstream profile, dependencies of the packages) first if and only if
   skip-dependencies is not set; the package build (package profile, exactly
   the packages) is the last process of every ended run whose dependency
   build was skipped or exited 0, is never followed by anything and is not
   launched otherwise; with skip-dependencies exactly one process is
   launched. *)
C4_BuildPhaseOrder ==
    (cli.verb = "Build" /\ EnteredWorkflow) =>
        /\ cli.skip_dependencies => \A i \in 1..Len(launched) : ~IsDependencyBuild(launched[i])
        /\ (~cli.skip_dependencies /\ PastDependencyPhase) =>
               /\ Len(launched) >= 1
               /\ launched[1].cmd = BuildCommand(EffectiveUpstream, DependenciesFor(pkgs))
        /\ \A i \in 2..Len(launched) : ~IsDependencyBuild(launched[i])
        /\ \A i \in 1..Len(launched) :
               IsPackageBuild(launched[i]) =>
                   /\ i = Len(launched)
                   /\ launched[i].cmd = BuildCommand(EffectivePackage, ThesePackages(pkgs))
                   /\ i = IF cli.skip_dependencies THEN 1 ELSE 2
        /\ (Terminated /\ (cli.skip_dependencies
                           \/ (Len(launched) >= 1 /\ launched[1].status = Some(0)))) =>
               Len(launched) >= 1 /\ IsPackageBuild(Last(launched))
        /\ (~cli.skip_dependencies /\ Len(launched) >= 1
                /\ launched[1].status # Some(0) /\ Terminated) => Len(launched) = 1
        /\ (Terminated /\ cli.skip_dependencies) => Len(launched) = 1

C4_Witness ==
    /\ cli.verb = "Build" /\ ~cli.skip_dependencies /\ cli.packages = Some(<<"pkgA", "pkgB">>)
    /\ Terminated /\ exitCode = Some(0)
    /\ Len(launched) = 2
    /\ IsDependencyBuild(launched[1]) /\ ~IsPackageBuild(launched[1])
    /\ IsPackageBuild(launched[2]) /\ ~IsDependencyBuild(launched[2])

BuildTestingOn == cmake_arg("BUILD_TESTING", "ON")
BuildTestingOff == cmake_arg("BUILD_TESTING", "OFF")

\* the profile a launched Build command line was configured from
StoredProfileOf(l) ==
    IF IsDependencyBuild(l) THEN StoredConfig.upstream ELSE StoredConfig.package

(* C5 as stated: Build verb with skip-tests: both profiles' effective
   build-tests value is false and every Build command line of the run holds
   BUILD_TESTING=OFF and never BUILD_TESTING=ON. *)
C5_Original ==
    (cli.verb = "Build" /\ cli.skip_tests /\ EnteredWorkflow) =>
        /\ (pc = "build_deps" \/ PastDependencyPhase) =>
               ~config.upstream.build_tests /\ ~config.package.build_tests
        /\ \A i \in 1..Len(launched) :
               /\ Count(launched[i].cmd.args, BuildTestingOff) >= 1
               /\ Count(launched[i].cmd.args, BuildTestingOn) = 0

(* C5 amended: Build verb with skip-tests: both profiles' effective
   build-tests value is false, and in every Build command line of the run the
   toggle the Configured stage emits, the token right after --cmake-args, is
   BUILD_TESTING=OFF; BUILD_TESTING=ON occurs in a command line exactly as
   often as the stored extra tool arguments of its profile hold it. *)
C5_SkipTestsToggleOff ==
    (cli.verb = "Build" /\ cli.skip_tests /\ EnteredWorkflow) =>
        /\ (pc = "build_deps" \/ PastDependencyPhase) =>
               ~config.upstream.build_tests /\ ~config.package.build_tests
        /\ \A i \in 1..Len(launched) :
             LET a == launched[i].cmd.args
                 k == FirstIndex(a, "--cmake-args")
             IN /\ IsColconBuild(launched[i])
                /\ k > 0
                /\ a[k + 1] = BuildTestingOff
                /\ Count(a, BuildTestingOn) =
                       Count(StoredProfileOf(launched[i]).cmake_args, BuildTestingOn)

C5_Witness ==
    /\ cli.verb = "Build" /\ cli.skip_tests /\ EnteredWorkflow
    /\ CfgExists
    /\ StoredConfig.upstream.build_tests /\ StoredConfig.package.build_tests
    /\ Len(launched) = 2 /\ Terminated
    /\ \A i \in 1..2 : Count(launched[i].cmd.args, BuildTestingOff) = 1

\* the token of a Build command line right before its package selection
ModeTokenOf(l) ==
    LET a == l.cmd.args
        k == IF IsDependencyBuild(l) THEN FirstIndex(a, "--packages-up-to")
             ELSE FirstIndex(a, "--packages-select")
    IN a[k - 1]

ModeFlag(t) == "-DCMAKE_BUILD_TYPE=" \o t

(* C6: Build verb with a build-type override M: the upstream profile keeps
   its stored mode and the package profile differs from the stored one in its
   mode (M) only, once the override is applied; the dependency-build command
   line carries the upstream profile's stored mode as its mode flag and the
   package-build command line carries M. *)
C6_OverrideOnlyPackageMode ==
    (cli.verb = "Build" /\ cli.build_type # None /\ EnteredWorkflow
        /\ (pc = "build_deps" \/ PastDependencyPhase)) =>
        /\ config.upstream = EffectiveUpstream
        /\ config.package \in {EffectivePackage,
                               [EffectivePackage EXCEPT
                                   !.build_type = StoredConfig.package.build_type]}
        /\ \A i \in 1..Len(launched) :
             /\ IsDependencyBuild(launched[i]) =>
                    ModeTokenOf(launched[i]) = ModeFlag(StoredConfig.upstream.build_type)
             /\ IsPackageBuild(launched[i]) =>
                    /\ ModeTokenOf(launched[i]) = ModeFlag(cli.build_type[1])
                    /\ config.package = EffectivePackage

C6_Witness ==
    /\ cli.verb = "Build" /\ cli.build_type = Some("Release") /\ EnteredWorkflow
    /\ CfgExists
    /\ StoredConfig.upstream.build_type = "RelWithDebInfo"
    /\ StoredConfig.package.build_type = "Debug"
    /\ Len(launched) = 2
    /\ ModeTokenOf(launched[1]) = ModeFlag("RelWithDebInfo")
    /\ ModeTokenOf(launched[2]) = ModeFlag("Release")

(* ================== properties of the builder pipeline ================ *)
\* the builder holds a sequence that went through configure
Configured == stage = "ConfiguredBuild" \/ (stage = "run" /\ bconfig # None)

(* C7: for every build profile given to configure: with no mixins the
   sequence (as configured, and as finalized) holds no --mixin token; with
   mixins it holds --mixin exactly once, directly followed by all the mixin
   names in their stored order and then by the next group (--cmake-args). *)
C7_MixinFlag ==
    Configured =>
        LET m == bconfig[1].mixins
            i == FirstIndex(stack, "--mixin")
        IN IF m = <<>>
           THEN Count(stack, "--mixin") = 0
           ELSE /\ Count(stack, "--mixin") = 1
                /\ SubSeq(stack, i + 1, i + Len(m)) = m
                /\ stack[i + Len(m) + 1] = "--cmake-args"

C7_Witness ==
    /\ stage = "ConfiguredBuild"
    /\ bconfig[1].mixins = <<"ccache", "ninja">>
    /\ Count(stack, "--mixin") = 1
    /\ stack[FirstIndex(stack, "--mixin") + 1] = "ccache"
    /\ stack[FirstIndex(stack, "--mixin") + 2] = "ninja"

(* C8: for every build profile and any extra tool arguments, the last token
   of the sequence configure produces is the build-mode flag of the profile,
   and the extra tool arguments stand directly before it. *)
C8_ModeFlagLast ==
    stage = "ConfiguredBuild" =>
        LET c == bconfig[1]
            n == Len(stack)
        IN /\ stack[n] = ModeFlag(c.build_type)
           /\ SubSeq(stack, n - Len(c.cmake_args), n - 1) = c.cmake_args

C8_Witness ==
    /\ stage = "ConfiguredBuild"
    /\ bconfig[1].cmake_args = <<"-DCMAKE_BUILD_TYPE=Release">>
    /\ bconfig[1].build_type = "Debug"
    /\ Last(stack) = ModeFlag("Debug")
    /\ stack[Len(stack) - 1] = "-DCMAKE_BUILD_TYPE=Release"

(* ====================== properties of the Init verb =================== *)
(* C9: init without force while the config file exists: no step of the run
   changes the file or creates anything, and the step that ends the run
   exits with the failure code -1. *)
C9_InitRefusesWithoutForce ==
    [][(cli.verb = "Init" /\ ~cli.force /\ CfgExists) =>
           /\ cfgText' = cfgText
           /\ dirs' = dirs
           /\ (status' # "running" => (status' = "exited" /\ exitCode' = Some(FAILURE)))]_vars

C9_Witness ==
    /\ cli.verb = "Init" /\ ~cli.force /\ CfgExists
    /\ cfgText.kind = "toml"
    /\ Terminated /\ exitCode = Some(FAILURE)
    /\ out = <<"Will not overwrite without --force">>

(* C10: init with force on an existing config file on which every file
   operation succeeds, whatever its contents: when the run has ended the
   file holds the default configuration and the exit code is 0. *)
C10_ForceOverwritesAnyContents ==
    (cli.verb = "Init" /\ cli.force /\ CfgExists /\ cfgMode = AllOps /\ Terminated) =>
        /\ cfgText = toml_to_string_pretty(Config_default)
        /\ exitCode = Some(0)

\* ---------------------------------------------------------------------
\* Clean verb
\* ---------------------------------------------------------------------

\* the path clean_package builds below the workspace for a subfolder
CleanPath(base) == base \o "/" \o cli.clean_package

\* a removal of the given subfolder is on record
RemovalAttempted(base) ==
    \E i \in 1..Len(removed) : removed[i].path = CleanPath(base)

\* a removal of the given subfolder is on record as failed
RemovalFailed(base) ==
    \E i \in 1..Len(removed) :
        removed[i].path = CleanPath(base) /\ ~removed[i].ok

NothingMessage == \E i \in 1..Len(out) : out[i] = "Nothing to clean up"

\* C11: when the Clean verb runs clean_package with neither the build nor
\* the install subfolder of the package in existence, no removal is made,
\* the "nothing to clean up" message is printed and the run exits 0; and in
\* every state the message is on the output only if no removal was
\* attempted.
C11_NothingToClean ==
    /\ [](NothingMessage => removed = <<>>)
    /\ [][(/\ pc = "Clean"
           /\ ~FolderExists("build", cli.clean_package)
           /\ ~FolderExists("install", cli.clean_package))
          => (/\ removed' = <<>>
              /\ Last(out') = "Nothing to clean up"
              /\ status' = "exited"
              /\ exitCode' = Some(0))]_vars

C11_Witness ==
    /\ cli.verb = "Clean"
    /\ cli.clean_package = "pkgA"
    /\ Terminated
    /\ removed = <<>>
    /\ out = <<"Nothing to clean up">>
    /\ exitCode = Some(0)

\* C12: when the Clean verb runs clean_package, the install subfolder is
\* handed to a removal whenever it exists, whatever became of the build
\* subfolder's removal; a failed removal of the build subfolder is reported
\* on the output; and the run exits 0 in every case.
C12_CleanNeverAborts ==
    [][pc = "Clean"
       => (/\ FolderExists("install", cli.clean_package)
                => RemovalAttempted("install")'
           /\ FolderExists("build", cli.clean_package)
                => RemovalAttempted("build")'
           /\ RemovalFailed("build")'
                => \E i \in 1..Len(out') : out'[i] = "Error"
           /\ status' = "exited"
           /\ exitCode' = Some(0))]_vars

C12_Witness ==
    /\ cli.verb = "Clean"
    /\ cli.clean_package = "pkgA"
    /\ Terminated
    /\ Len(removed) = 2
    /\ removed[1] = [path |-> "build/pkgA", ok |-> FALSE]
    /\ removed[2].path = "install/pkgA"
    /\ out = <<"Error">>
    /\ exitCode = Some(0)

\* ---------------------------------------------------------------------
\* Upward resolver
\* ---------------------------------------------------------------------

HasMarker(i, markers) == dirs[i].entries \cap markers # {}

\* the first directory of the chain, from the start, that holds a marker
Nearest(markers) ==
    IF \E i \in 1..Len(dirs) : HasMarker(i, markers)
    THEN Some(CHOOSE i \in 1..Len(dirs) :
                  /\ HasMarker(i, markers)
                  /\ \A j \in 1..(i - 1) : ~HasMarker(j, markers))
    ELSE None

\* the search always moves: an iteration either returns or goes one up
ResolverProgress ==
    [][pc = "find_upwards"
       => \/ pc' = "returned"
          \/ /\ rCwd # None
             /\ rCwd' = None \/ (rCwd' # None /\ rCwd'[1] = rCwd[1] + 1)]_vars

\* what find_upwards returned is the nearest marked directory, none when no
\* directory of the chain is marked; the operator used in whole runs agrees
ResolverResult ==
    /\ rCwd # None => rCwd[1] \in 1..Len(dirs)
    /\ rResult # None
         => /\ rResult[1] = Nearest(rMarkers)
            /\ find_upwards(rMarkers) = rResult[1]

\* C13 as stated: find_upwards terminates with the nearest directory of the
\* chain start..root that holds a marker, none when there is no such
\* directory, and package-name resolution gives that directory's name.
C13_Original ==
    /\ ResolverResult
    /\ pc = "package_or"
         => package = (IF Nearest(rMarkers) = None THEN None
                       ELSE Some(dirs[Nearest(rMarkers)[1]].name))

\* C13 (amended): find_upwards goes one directory up on every miss, so it
\* terminates, and returns the nearest directory of the chain start..root
\* that holds a marker, none when there is no such directory; package-name
\* resolution gives that directory's name, and gives none when that
\* directory is the filesystem root, which has no name.
C13_NearestMarkedDirectory ==
    /\ ResolverProgress
    /\ [](/\ ResolverResult
          /\ pc = "package_or"
               => package =
                    (IF Nearest(rMarkers) = None THEN None
                     ELSE IF Nearest(rMarkers)[1] = Len(dirs) THEN None
                     ELSE Some(dirs[Nearest(rMarkers)[1]].name)))

\* the start is three levels below the marked directory, which is named
C13_Witness ==
    /\ pc = "package_or"
    /\ Len(dirs) = 5
    /\ rResult = Some(Some(4))
    /\ package = Some("d4")

\* ---------------------------------------------------------------------
\* Launch failures
\* ---------------------------------------------------------------------

ExternalTools == {"colcon", "ninja", "ctest"}

\* launch i is one of colcon, ninja or ctest and could not be started
LaunchFailed(i) ==
    /\ launched[i].cmd.program \in ExternalTools
    /\ ~launched[i].spawned

\* C14: in every verb and phase, a launch of colcon, ninja or ctest that
\* could not be started is the last launch of the run, and the run has
\* ended by a panic, which is no exit with a code (neither a child's code
\* nor the failure code).
C14_LaunchFailureIsFatal ==
    \A i \in 1..Len(launched) :
        LaunchFailed(i)
          => /\ i = Len(launched)
             /\ pc = "exited"
             /\ status = "panicked"
             /\ exitCode = None

\* the third launch of a Test run, ninja, could not be started
C14_Witness ==
    /\ cli.verb = "Test"
    /\ Len(launched) = 3
    /\ launched[3].cmd.program = "ninja"
    /\ LaunchFailed(3)
    /\ launched[1].status = Some(0)
    /\ launched[2].status = Some(0)
    /\ status = "panicked"

\* ---------------------------------------------------------------------
\* Config verb
\* ---------------------------------------------------------------------

\* C15: a run of the config verb never enters a verb workflow and never
\* loads the configuration file (the configuration in memory stays the
\* built-in one and no load error is printed, whatever the file holds); it
\* launches at most the editor and ends by an exit: with the failure code
\* -1 when $EDITOR could not be read or the editor could not be started,
\* and with the editor's exit code when the editor ran and gave one.
C15_ConfigVerbExits ==
    cli.verb = "Config"
      => /\ pc \in {"main", "exited"}
         /\ config = Config_default
         /\ \A i \in 1..Len(out) :
              out[i] \notin {"Could not open config file",
                             "Could not parse config file"}
         /\ removed = <<>>
         /\ Len(launched) <= 1
         /\ \A i \in 1..Len(launched) : launched[i].cmd.program = "$EDITOR"
         /\ ~Terminated => launched = <<>>
         /\ Terminated
              => /\ status = "exited"
                 /\ launched = <<>> => exitCode = Some(FAILURE)
                 /\ (launched # <<>> /\ ~launched[1].spawned)
                      => exitCode = Some(FAILURE)
                 /\ (launched # <<>> /\ launched[1].spawned
                       /\ launched[1].status # None)
                      => exitCode = launched[1].status

\* the editor ran on a malformed configuration file and exited 1
C15_Witness ==
    /\ cli.verb = "Config"
    /\ CfgExists
    /\ cfgText = GarbageText
    /\ Terminated
    /\ Len(launched) = 1
    /\ launched[1].spawned
    /\ launched[1].status = Some(1)
    /\ exitCode = Some(1)

\* ---------------------------------------------------------------------
\* Test verb, phase by phase
\* ---------------------------------------------------------------------

\* phase 1 applies: rebuild-dependencies without skip-rebuild
RebuildsDependencies == cli.rebuild_dependencies /\ ~cli.skip_rebuild

\* the launches phase 1 makes when none of them fails
Phase1Launches ==
    IF RebuildsDependencies THEN (IF cli.test # None THEN 2 ELSE 1) ELSE 0

\* the launches phases 1 and 2 make when none of them fails
BuildLaunches == Phase1Launches + (IF cli.skip_rebuild THEN 0 ELSE 1)

\* the first n launches were made and all exited 0
AllSucceeded(n) ==
    /\ Len(launched) >= n
    /\ \A i \in 1..n : launched[i].spawned /\ launched[i].status = Some(0)

TestDependencyBuild ==
    BuildCommand(StoredConfig.upstream, DependenciesFor(<<package[1]>>))

TestPackageBuild ==
    BuildCommand(StoredConfig.package, ThesePackages(<<package[1]>>))

IsTestExecution(l) == IsCtest(l) \/ IsColconTest(l) \/ IsTestResult(l)

(* C16: Test verb, phase 1: a dependency build is launched only when
   rebuild-dependencies is set and skip-rebuild is not, and then it is the
   first launch of every run that got its package resolved (upstream
   profile, dependencies of the package); when it exited 0 and a single test
   is named, a colcon build of the package with the package profile is the
   second launch; with skip-rebuild no colcon build and no ninja is ever
   launched. *)
C16_TestPhase1 ==
    cli.verb = "Test" =>
        /\ ~RebuildsDependencies =>
               \A i \in 1..Len(launched) : ~IsDependencyBuild(launched[i])
        /\ \A i \in 2..Len(launched) : ~IsDependencyBuild(launched[i])
        /\ (RebuildsDependencies /\ package # None /\ pc # "test_deps") =>
               /\ Len(launched) >= 1
               /\ IsDependencyBuild(launched[1])
               /\ launched[1].cmd = TestDependencyBuild
        /\ (RebuildsDependencies /\ cli.test # None /\ AllSucceeded(1)
                /\ pc # "test_deps_pkg") =>
               /\ Len(launched) >= 2
               /\ IsPackageBuild(launched[2])
               /\ launched[2].cmd = TestPackageBuild
        /\ cli.skip_rebuild =>
               \A i \in 1..Len(launched) :
                   ~IsColconBuild(launched[i]) /\ ~IsNinja(launched[i])

C16_Witness ==
    /\ cli.verb = "Test" /\ cli.rebuild_dependencies /\ ~cli.skip_rebuild
    /\ cli.test = Some("t1")
    /\ Len(launched) = 2
    /\ IsDependencyBuild(launched[1]) /\ launched[1].status = Some(0)
    /\ IsPackageBuild(launched[2]) /\ ~IsDependencyBuild(launched[2])

(* C17: Test verb without skip-rebuild, package resolved, phase 2: the
   launch that follows the launches of phase 1 is ninja on the named test's
   target in the package's build folder when a test is named, and the colcon
   build of the package with the package profile otherwise; it is made in
   every run whose phase 1 did not fail, no other ninja and no later colcon
   build is launched, and every test execution (ctest, colcon test,
   test-result) comes after it. *)
C17_TestPhase2 ==
    (cli.verb = "Test" /\ ~cli.skip_rebuild /\ package # None) =>
        LET k == Phase1Launches IN
        /\ Len(launched) > k =>
               IF cli.test # None
               THEN /\ launched[k + 1].cmd.program = "ninja"
                    /\ launched[k + 1].cmd.args =
                           <<"-C", ws \o "/build/" \o package[1], cli.test[1]>>
               ELSE /\ IsPackageBuild(launched[k + 1])
                    /\ launched[k + 1].cmd = TestPackageBuild
        /\ pc \in {"test_run", "test_result"} => Len(launched) > k
        /\ (Terminated /\ AllSucceeded(k)) => Len(launched) > k
        /\ \A i \in 1..Len(launched) :
               /\ IsNinja(launched[i]) => i = k + 1
               /\ IsColconBuild(launched[i]) => i <= k + 1
               /\ IsTestExecution(launched[i]) => i > k + 1

C17_Witness ==
    /\ cli.verb = "Test" /\ ~cli.skip_rebuild /\ cli.rebuild_dependencies
    /\ cli.test = Some("t1") /\ ~cli.direct
    /\ Len(launched) = 4
    /\ IsNinja(launched[3])
    /\ IsColconTest(launched[4])

(* C18: Test verb, package resolved, phases 3 and 4: ctest is launched only
   when a test is named and direct is set, right after the builds, and it is
   the last launch; in every other case the launch after the builds is
   colcon test on the package, with the filter -R ^name$ if and only if a
   test is named; test-result for the package, verbose and all, is launched
   if and only if that colcon test exited 0, right after it, and it is the
   last launch. *)
C18_TestPhases3And4 ==
    (cli.verb = "Test" /\ package # None) =>
        LET b == BuildLaunches
            directPath == cli.test # None /\ cli.direct
        IN
        /\ \A i \in 1..Len(launched) :
             /\ IsCtest(launched[i]) =>
                    directPath /\ i = b + 1 /\ i = Len(launched)
             /\ IsColconTest(launched[i]) =>
                    LET a == launched[i].cmd.args IN
                    /\ ~directPath
                    /\ i = b + 1
                    /\ Count(a, "-R") = (IF cli.test # None THEN 1 ELSE 0)
                    /\ cli.test # None =>
                           a[FirstIndex(a, "-R") + 1] = "^" \o cli.test[1] \o "$"
                    /\ SubSeq(a, Len(a) - 1, Len(a)) =
                           <<"--packages-select", package[1]>>
             /\ IsTestResult(launched[i]) =>
                    /\ i = b + 2
                    /\ i = Len(launched)
                    /\ IsColconTest(launched[i - 1])
                    /\ launched[i - 1].status = Some(0)
                    /\ SubSeq(launched[i].cmd.args, 3, Len(launched[i].cmd.args)) =
                           <<"test-result", "--test-result-base",
                             "build/" \o package[1], "--verbose", "--all">>
        /\ (Terminated /\ AllSucceeded(b)) =>
               /\ Len(launched) > b
               /\ IF directPath THEN IsCtest(launched[b + 1])
                  ELSE IsColconTest(launched[b + 1])
        /\ (Terminated /\ ~directPath /\ AllSucceeded(b + 1)) =>
               /\ Len(launched) = b + 2
               /\ IsTestResult(launched[b + 2])
        /\ (~directPath /\ Len(launched) > b /\ ~AllSucceeded(b + 1)) =>
               Len(launched) = b + 1

C18_Witness ==
    /\ cli.verb = "Test" /\ cli.test = Some("t1") /\ ~cli.direct
    /\ cli.skip_rebuild
    /\ Terminated
    /\ Len(launched) = 2
    /\ IsColconTest(launched[1]) /\ launched[1].status = Some(0)
    /\ Count(launched[1].cmd.args, "^t1$") = 1
    /\ IsTestResult(launched[2])

\* ---------------------------------------------------------------------
\* Builder pipeline: group order and append-only sequence
\* ---------------------------------------------------------------------

\* the token groups of a profile, as the command line is to hold them
ParallelGroup(c) ==
    IF c.parallel_jobs = None THEN <<>>
    ELSE <<"--executor", "parallel", "--parallel-workers",
           ToString(c.parallel_jobs[1])>>

HandlerToken(name, on) == IF on THEN name \o "+" ELSE name \o "-"

EventGroup(c) ==
    <<"--event-handlers",
      HandlerToken("summary", c.event_handlers.summary),
      HandlerToken("console_start_end", c.event_handlers.console_start_end),
      HandlerToken("console_cohesion", c.event_handlers.console_cohesion),
      HandlerToken("desktop_notification", c.event_handlers.desktop_notification)>>

MixinGroup(c) == IF c.mixins = <<>> THEN <<>> ELSE <<"--mixin">> \o c.mixins

ToggleGroup(c) ==
    <<"--cmake-args", IF c.build_tests THEN BuildTestingOn ELSE BuildTestingOff>>

\* what a step appended to the sequence
Appended == SubSeq(stack', Len(stack) + 1, Len(stack'))

(* C19: for every build profile, what configure appends to the sequence of
   the Verb Selected stage is, in this order and with nothing in between:
   the parallel-executor flags (only when parallel_jobs is set), the
   --event-handlers flag with its four handler tokens, --mixin with the
   mixin names (only when there are any), the BUILD_TESTING toggle behind
   --cmake-args, the extra tool arguments in their stored order, and the
   build-mode flag. *)
C19_ConfigureGroupOrder ==
    [][(stage = "BuildVerb" /\ stage' = "ConfiguredBuild")
       => LET c == bconfig'[1] IN
          /\ IsPrefix(stack, stack')
          /\ Appended = ParallelGroup(c) \o EventGroup(c) \o MixinGroup(c)
                          \o ToggleGroup(c) \o c.cmake_args
                          \o <<ModeFlag(c.build_type)>>]_vars

\* a configured sequence that holds all six groups
C19_Witness ==
    /\ stage = "ConfiguredBuild"
    /\ bconfig[1].parallel_jobs # None
    /\ bconfig[1].mixins # <<>>
    /\ bconfig[1].cmake_args # <<>>
    /\ 0 < FirstIndex(stack, "--executor")
    /\ FirstIndex(stack, "--executor") < FirstIndex(stack, "--event-handlers")
    /\ FirstIndex(stack, "--event-handlers") < FirstIndex(stack, "--mixin")
    /\ FirstIndex(stack, "--mixin") < FirstIndex(stack, "--cmake-args")
    /\ FirstIndex(stack, "--cmake-args") + 1 + Len(bconfig[1].cmake_args) + 1
           = Len(stack)

(* C20: in every pipeline the sequence after a stage transition (new, then
   build / test / test_result, then configure, then run) has the sequence
   before it as a prefix; and from the Bare Invocation stage on its first
   two tokens are --log-base and its value, "log" when new was called with
   log set and "/dev/null" otherwise. *)
C20_AppendOnly ==
    /\ [][stage' # stage => IsPrefix(stack, stack')]_vars
    /\ [](stage # "none"
            => /\ Len(stack) >= 2
               /\ stack[1] = "--log-base"
               /\ stack[2] = (IF blog[1] THEN "log" ELSE "/dev/null"))

\* a finalized Build command line that kept the log folder at its head
C20_Witness ==
    /\ stage = "run"
    /\ bconfig # None
    /\ blog = Some(TRUE)
    /\ SubSeq(stack, 1, 3) = <<"--log-base", "log", "build">>
    /\ Len(stack) > 12

\* ---------------------------------------------------------------------
\* Test verb: direct run with rebuilt dependencies
\* ---------------------------------------------------------------------

\* rebuild-dependencies, no skip-rebuild, a test named, direct
DirectWithDependencies ==
    /\ cli.verb = "Test"
    /\ cli.rebuild_dependencies
    /\ ~cli.skip_rebuild
    /\ cli.test # None
    /\ cli.direct

(* C21 as stated: Test verb with rebuild-dependencies, without skip-rebuild,
   with a test name and direct: no colcon build of the package itself is
   ever launched; every launch is the dependency build, ninja or ctest. *)
C21_Original ==
    DirectWithDependencies =>
        \A i \in 1..Len(launched) :
            /\ ~IsPackageBuild(launched[i])
            /\ \/ IsDependencyBuild(launched[i])
               \/ IsNinja(launched[i])
               \/ IsCtest(launched[i])

(* C21 (amended): Test verb with rebuild-dependencies, without skip-rebuild,
   with a test name and direct: the package-build sub-step is not bypassed.
   The launches are, in this order, the dependency build, the colcon build
   of the package with the package profile, ninja on the test target and
   ctest, each launched only after the one before it exited 0; a run whose
   package was resolved and in which every launch exited 0 ends after
   exactly these four. *)
C21_DirectStillBuildsPackage ==
    DirectWithDependencies =>
        /\ Len(launched) <= 4
        /\ \A i \in 1..Len(launched) :
             /\ i = 1 => IsDependencyBuild(launched[i])
             /\ i = 2 => /\ IsPackageBuild(launched[i])
                         /\ ~IsDependencyBuild(launched[i])
                         /\ launched[i].cmd = TestPackageBuild
             /\ i = 3 => IsNinja(launched[i])
             /\ i = 4 => IsCtest(launched[i])
             /\ i > 1 => launched[i - 1].status = Some(0)
        /\ (Terminated /\ package # None /\ AllSucceeded(Len(launched)))
               => Len(launched) = 4 /\ exitCode = Some(0)

C21_Witness ==
    /\ DirectWithDependencies
    /\ Terminated
    /\ exitCode = Some(0)
    /\ Len(launched) = 4
    /\ IsPackageBuild(launched[2])
    /\ IsCtest(launched[4])

\* ---------------------------------------------------------------------
\* Clean verb with an empty package name
\* ---------------------------------------------------------------------

(* C22: a Clean run with the empty package name makes no removal; and no
   Clean run ever hands the workspace's whole build or install folder to a
   removal. *)
C22_EmptyPackageRemovesNothing ==
    cli.verb = "Clean" =>
        /\ cli.clean_package = "" => removed = <<>>
        /\ \A i \in 1..Len(removed) : removed[i].path \notin {"build/", "install/"}

\* ---------------------------------------------------------------------
\* Builder pipeline: the event-handlers flag
\* ---------------------------------------------------------------------

HandlerNames ==
    {"summary", "console_start_end", "console_cohesion", "desktop_notification"}

IsHandlerToken(t) == \E n \in HandlerNames : t \in {n \o "+", n \o "-"}

(* C23: in every sequence the builder holds from the Verb Selected stage on,
   for Build, Test and Test-Result, --event-handlers occurs at most once and
   every occurrence is directly followed by a handler token. *)
C23_EventHandlersFlagOnce ==
    stage \in {"BuildVerb", "BasicVerb", "ConfiguredBuild", "run"} =>
        /\ Count(stack, "--event-handlers") <= 1
        /\ \A i \in 1..Len(stack) :
             stack[i] = "--event-handlers"
               => i < Len(stack) /\ IsHandlerToken(stack[i + 1])

====
